---------------------------- MODULE Spec2Model ----------------------------
(***************************************************************************)
(* State-machine model of the BLS2 operator dashboard (React front end).   *)
(*                                                                         *)
(*   App.js               status store, polling, push channel, routes      *)
(*   SystemControls       (src/unnamed/part_000) start / stop / test-check *)
(*   Dashboard.js         recent data, test-check                          *)
(*   AppointmentSlots.js  slot list, booking modal                         *)
(*   SystemLogs.js        log stream, level filter, search                 *)
(*                                                                         *)
(* Every React event handler and every continuation after an `await` is    *)
(* one action.  A request that was sent and whose promise has not settled  *)
(* is an element of the bag `inflight`; the server is the environment and  *)
(* decides the outcome when the response is delivered.  A page component   *)
(* lives while its route is shown; leaving the route unmounts it, its      *)
(* state is dropped and the state setters of its pending continuations     *)
(* become no-ops (request field live = FALSE), while the calls those       *)
(* continuations make (fetchSlots, onStatusUpdate) still run.              *)
(***************************************************************************)
EXTENDS Integers, Sequences, FiniteSets, Bags, TLC

\* ------------------------------------------------------------------ bounds
\* Requests the user, the poll timer or a mount may add while this many are
\* still pending (continuations of a settled request are never held back).
MaxInFlight == 2
\* Slots known to the server.
MaxSlots == 1
\* Confirmations the user may give in excess of the bookings sent.
MaxCredit == 1
\* WebSocket objects that exist unclosed at a time.
MaxConns == 2
\* Largest total_checks a pushed status payload carries.
MaxChecks == 1
\* Longest text of a log field or of the search box, in characters.
MaxLen == 2
\* Longest log stream the page holds.
MaxStream == 3
\* Longest page GET /logs answers with.
MaxPage == 2
\* Longest stream the search box is tried on.
MaxShown == 2

\* --------------------------------------------------------------- constants
Routes == {"/", "/controls", "/appointments", "/logs"}
StatusValues == {"stopped", "running", "paused", "error"}
SlotStatus == {"available", "booked", "failed"}
Intervals == {1, 2, 3, 5, 10}
SlotIds == 1..MaxSlots
StatusRecords == [status : StatusValues, total_checks : 0..MaxChecks]
\* The values of the level select that the model uses, 'all' first.
LogLevels == <<"all", "error">>
\* Characters of the texts: a letter in both cases and another letter.
Alphabet == {"a", "A", "b"}

VARIABLES
    route,              \* the route react-router shows
    systemStatus,       \* App: useState systemStatus
    ctlIsLoading,       \* SystemControls: isLoading
    checkInterval,      \* SystemControls: checkInterval
    showConfirmStop,    \* SystemControls: showConfirmStop
    dashIsLoading,      \* Dashboard: isLoading
    recentLogs,         \* Dashboard: recentLogs
    availableSlots,     \* Dashboard: availableSlots
    slots,              \* AppointmentSlots: slots (status by slot id)
    apptIsLoading,      \* AppointmentSlots: isLoading
    selectedSlot,       \* AppointmentSlots: selectedSlot (its id, 0 = null)
    showBookingModal,   \* AppointmentSlots: showBookingModal
    bookingConfirmed,   \* AppointmentSlots: bookingConfirmed
    inflight,           \* bag of requests awaiting their response
    server,             \* the server's SystemStatus record
    srvSlots,           \* the server's slots (status by slot id)
    srvLogs,            \* the server's log records, newest first
    appMounted,         \* App is mounted
    websocket,          \* App: useState websocket (1 = the WebSocket, 0 = null)
    isConnected,        \* App: useState isConnected
    conns,              \* bag of the WebSocket objects not yet closed
    logs,               \* SystemLogs: logs, newest first
    logsIsLoading,      \* SystemLogs: isLoading
    selectedLevel,      \* SystemLogs: selectedLevel
    searchTerm,         \* SystemLogs: searchTerm
    ev,                 \* history: what the specification at hand records
    bookCredit,         \* history: confirmations given minus bookings sent
    lastApplied,        \* history: the status payload applied last
    page,               \* history: the log page applied last, <<>> if none since
                        \* the stream was emptied
    arrived,            \* history: the log events handled since, in arrival order
    alerted             \* history: the error the step put in an alert, if any

appVars == <<systemStatus, appMounted, websocket, isConnected, conns>>
ctlVars == <<ctlIsLoading, checkInterval, showConfirmStop>>
dashVars == <<dashIsLoading, recentLogs, availableSlots>>
apptVars == <<slots, apptIsLoading, selectedSlot, showBookingModal, bookingConfirmed>>
logVars == <<logs, logsIsLoading, selectedLevel, searchTerm>>
srvVars == <<server, srvSlots, srvLogs>>
progVars == <<route, appVars, ctlVars, dashVars, apptVars, logVars, inflight, srvVars>>
histVars == <<ev, bookCredit, lastApplied, page, arrived, alerted>>
vars == <<progVars, histVars>>

\* ------------------------------------------------------------------- texts
\* A text is a sequence of characters.
RECURSIVE Texts(_)
Texts(n) ==
    IF n = 0 THEN {<<>>}
    ELSE Texts(n - 1) \cup {Append(t, ch) : t \in {u \in Texts(n - 1) : Len(u) = n - 1},
                                            ch \in Alphabet}

\* String.prototype.toLowerCase
toLowerCase(t) == [i \in 1..Len(t) |-> IF t[i] = "A" THEN "a" ELSE t[i]]

\* String.prototype.includes
includes(t, part) ==
    \E i \in 0..(Len(t) - Len(part)) : SubSeq(t, i + 1, i + Len(part)) = part

\* A log record as the page reads it: message, and step when it has one.
LogRecords ==
    [message : Texts(MaxLen)] \cup [message : Texts(MaxLen), step : Texts(MaxLen - 1)]

\* The records the log stream of SpecLogs is made of, each with its level.
LogPool ==
    {[message |-> <<"A", "b">>, level |-> "error"],
     [message |-> <<"b">>, step |-> <<"a">>, level |-> "info"]}

\* Sequences over S of length at most n.
RECURSIVE SeqsUpTo(_, _)
SeqsUpTo(S, n) ==
    IF n = 0 THEN {<<>>}
    ELSE SeqsUpTo(S, n - 1) \cup {Append(q, x) : q \in {u \in SeqsUpTo(S, n - 1) : Len(u) = n - 1},
                                                x \in S}

\* ---------------------------------------------------------------- requests
\* The level of a GET /logs request, carried as its index in LogLevels.
LevelArg(level) == CHOOSE i \in DOMAIN LogLevels : LogLevels[i] = level

Req(kind, live, arg) == [kind |-> kind, live |-> live, arg |-> arg]

Send(bag, r) == bag (+) SetToBag({r})

Settle(bag, r) == bag (-) SetToBag({r})

Pending == BagToSet(inflight)

\* Number of pending requests of one kind, whoever issued them.
InFlightOf(kind) ==
    LET S == {r \in Pending : r.kind = kind}
    IN  BagCardinality([r \in S |-> inflight[r]])

\* The kinds of request each page component issues.
KindsOf(p) ==
    CASE p = "/" -> {"dashTest", "dashLogs", "dashSlots"}
      [] p = "/controls" -> {"start", "stop", "test"}
      [] p = "/appointments" -> {"book", "slots"}
      [] p = "/logs" -> {"logs"}
      [] p = "App" -> {"status"}
      [] OTHER -> {}

\* Unmounting page p: its pending continuations keep running, their state
\* setters no longer reach a mounted component.
Orphan(bag, p) ==
    LET K == KindsOf(p)
        S == {IF r.kind \in K THEN [r EXCEPT !.live = FALSE] ELSE r : r \in DOMAIN bag}
    IN  [r \in S |->
            IF r.kind \in K
            THEN CopiesIn(r, bag) + CopiesIn([r EXCEPT !.live = TRUE], bag)
            ELSE bag[r]]

\* Room for one more request started by the user, the timer or a mount.
Room == BagCardinality(inflight) < MaxInFlight

DefaultStatus == [status |-> "stopped", total_checks |-> 0]

\* The value of a property the object does not have (undefined in the
\* source), where a status record is expected.
Undefined == [status |-> "undefined", total_checks |-> 0]

\* No status payload yet.
NoStatus == [status |-> "none", total_checks |-> 0]

\* A WebSocket object: its readyState (FAILED: closed by a failure whose
\* error event was dispatched and whose close event is still to come), and
\* whether the App instance that created it is still mounted.
Conn(state, live) == [state |-> state, live |-> live]


\* ------------------------------------------------------- AppointmentSlots
\* The booking modal is rendered (a fixed full-screen overlay above the page).
ModalOpen == showBookingModal /\ selectedSlot # 0

\* disabled= of the Confirm Booking button.
ConfirmDisabled == ~bookingConfirmed \/ apptIsLoading

\* A click that the UI or the handler's own guard turns down: nothing but
\* the history changes.
Rejected == UNCHANGED <<route, logVars, appVars, ctlVars, dashVars, apptVars, inflight, srvVars>>

\* Refresh button -> fetchSlots, up to its await.
fetchSlots ==
    /\ route = "/appointments"
    /\ ~ModalOpen
    /\ IF apptIsLoading
       THEN Rejected
       ELSE /\ Room
            /\ apptIsLoading' = TRUE
            /\ inflight' = Send(inflight, Req("slots", TRUE, 0))
            /\ UNCHANGED <<route, logVars, appVars, ctlVars, dashVars, slots, selectedSlot,
                           showBookingModal, bookingConfirmed, srvVars>>

\* fetchSlots after its await, its flag cleared in the try and not in a
\* finally.
fetchSlotsDone_NoFinally(r, ok) ==
    /\ r \in Pending
    /\ r.kind = "slots"
    /\ inflight' = Settle(inflight, r)
    /\ slots' = IF r.live /\ ok THEN srvSlots ELSE slots
    /\ apptIsLoading' = IF r.live /\ ok THEN FALSE ELSE apptIsLoading
    /\ UNCHANGED <<route, logVars, appVars, ctlVars, dashVars, selectedSlot, showBookingModal,
                   bookingConfirmed, srvVars>>

\* fetchSlots after its await: the response (ok) or the error.
fetchSlotsDone(r, ok) ==
    /\ r \in Pending
    /\ r.kind = "slots"
    /\ inflight' = Settle(inflight, r)
    /\ slots' = IF r.live /\ ok THEN srvSlots ELSE slots
    /\ apptIsLoading' = IF r.live THEN FALSE ELSE apptIsLoading
    /\ UNCHANGED <<route, logVars, appVars, ctlVars, dashVars, selectedSlot, showBookingModal,
                   bookingConfirmed, srvVars>>

\* A Book Now that leaves the confirmation flag as the last modal left it.
handleBookSlot_KeepsFlag(id) ==
    /\ route = "/appointments"
    /\ ~ModalOpen
    /\ id \in 1..Len(slots)
    /\ slots[id] = "available"
    /\ selectedSlot' = id
    /\ showBookingModal' = TRUE
    /\ UNCHANGED <<route, logVars, appVars, ctlVars, dashVars, slots, apptIsLoading, inflight,
                   bookingConfirmed, srvVars>>

\* Book Now, rendered for the slots the local list shows as available.
handleBookSlot(id) ==
    /\ route = "/appointments"
    /\ ~ModalOpen
    /\ id \in 1..Len(slots)
    /\ slots[id] = "available"
    /\ selectedSlot' = id
    /\ showBookingModal' = TRUE
    /\ bookingConfirmed' = FALSE
    /\ UNCHANGED <<route, logVars, appVars, ctlVars, dashVars, slots, apptIsLoading, inflight,
                   srvVars>>

\* The confirmation checkbox of the modal.
setBookingConfirmed(checked) ==
    /\ route = "/appointments"
    /\ ModalOpen
    /\ checked # bookingConfirmed
    /\ bookingConfirmed' = checked
    /\ UNCHANGED <<route, logVars, appVars, ctlVars, dashVars, slots, apptIsLoading, selectedSlot,
                   showBookingModal, inflight, srvVars>>

\* Cancel button of the modal.
cancelBooking ==
    /\ route = "/appointments"
    /\ ModalOpen
    /\ showBookingModal' = FALSE
    /\ UNCHANGED <<route, logVars, appVars, ctlVars, dashVars, slots, apptIsLoading, selectedSlot,
                   bookingConfirmed, inflight, srvVars>>

\* The POST /appointments/book of confirmBooking.
sendBook ==
    /\ apptIsLoading' = TRUE
    /\ inflight' = Send(inflight, Req("book", TRUE, selectedSlot))
    /\ UNCHANGED <<route, logVars, appVars, ctlVars, dashVars, slots, selectedSlot,
                   showBookingModal, bookingConfirmed, srvVars>>

\* The same click with the confirmation checked nowhere.
confirmBooking_Unchecked ==
    /\ route = "/appointments"
    /\ ModalOpen
    /\ IF apptIsLoading
       THEN Rejected
       ELSE Room /\ sendBook

\* Confirm Booking button -> confirmBooking, up to its await.
confirmBooking ==
    /\ route = "/appointments"
    /\ ModalOpen
    /\ IF ConfirmDisabled \/ selectedSlot = 0 \/ ~bookingConfirmed
       THEN Rejected
       ELSE Room /\ sendBook

\* A booking that marks the slot in the local list by its outcome.
confirmBookingDone_FlipsLocal(r, outcome) ==
    /\ r \in Pending
    /\ r.kind = "book"
    /\ outcome \in {"ok", "failed"} => srvSlots[r.arg] = "available"
    /\ srvSlots' = CASE outcome = "ok" -> [srvSlots EXCEPT ![r.arg] = "booked"]
                     [] outcome = "failed" -> [srvSlots EXCEPT ![r.arg] = "failed"]
                     [] OTHER -> srvSlots
    /\ slots' = IF r.live /\ outcome = "ok" /\ r.arg \in DOMAIN slots
                THEN [slots EXCEPT ![r.arg] = "booked"]
                ELSE slots
    /\ showBookingModal' = IF r.live /\ outcome = "ok" THEN FALSE ELSE showBookingModal
    /\ inflight' = IF outcome = "ok"
                   THEN Send(Send(Settle(inflight, r), Req("slots", r.live, 0)),
                             Req("status", TRUE, 0))
                   ELSE Settle(inflight, r)
    /\ apptIsLoading' = IF r.live THEN FALSE ELSE apptIsLoading
    /\ UNCHANGED <<route, logVars, appVars, ctlVars, dashVars, selectedSlot,
                   bookingConfirmed, server, srvLogs>>

\* confirmBooking after its await.  outcome: "ok" (200, the server booked the
\* slot), "error" (the server left the slot alone) or "failed" (an error
\* after the server marked the slot failed).
confirmBookingDone(r, outcome) ==
    /\ r \in Pending
    /\ r.kind = "book"
    /\ outcome \in {"ok", "failed"} => srvSlots[r.arg] = "available"
    /\ srvSlots' = CASE outcome = "ok" -> [srvSlots EXCEPT ![r.arg] = "booked"]
                     [] outcome = "failed" -> [srvSlots EXCEPT ![r.arg] = "failed"]
                     [] OTHER -> srvSlots
    /\ showBookingModal' = IF r.live /\ outcome = "ok" THEN FALSE ELSE showBookingModal
    /\ inflight' = IF outcome = "ok"
                   THEN Send(Send(Settle(inflight, r), Req("slots", r.live, 0)),
                             Req("status", TRUE, 0))
                   ELSE Settle(inflight, r)
    /\ apptIsLoading' = IF r.live THEN FALSE ELSE apptIsLoading
    /\ UNCHANGED <<route, logVars, appVars, ctlVars, dashVars, slots, selectedSlot,
                   bookingConfirmed, server, srvLogs>>

\* --------------------------------------------------------- SystemControls
isSystemRunning == systemStatus.status = "running"

\* A Start section shown whenever the system is not running.
isSystemStopped_NotRunning == systemStatus.status # "running"

isSystemStopped == systemStatus.status = "stopped"

\* A select that stores one more than the option chosen.
setCheckInterval_OffByOne(v) ==
    /\ route = "/controls"
    /\ isSystemStopped
    /\ ~ctlIsLoading
    /\ v # checkInterval
    /\ checkInterval' = v + 1
    /\ UNCHANGED <<route, logVars, appVars, ctlIsLoading, showConfirmStop, dashVars, apptVars,
                   inflight, srvVars>>

\* The check-interval select of the Start section.
setCheckInterval(v) ==
    /\ route = "/controls"
    /\ isSystemStopped
    /\ ~ctlIsLoading
    /\ v # checkInterval
    /\ checkInterval' = v
    /\ UNCHANGED <<route, logVars, appVars, ctlIsLoading, showConfirmStop, dashVars, apptVars,
                   inflight, srvVars>>

\* Start System button -> startSystem, up to its await.
startSystem ==
    /\ route = "/controls"
    /\ isSystemStopped
    /\ IF ctlIsLoading
       THEN Rejected
       ELSE /\ Room
            /\ ctlIsLoading' = TRUE
            /\ inflight' = Send(inflight, Req("start", TRUE, checkInterval))
            /\ UNCHANGED <<route, logVars, appVars, checkInterval, showConfirmStop, dashVars,
                           apptVars, srvVars>>

\* A start that shows the system running as soon as the 200 is in.
startSystemDone_Optimistic(r, ok) ==
    /\ r \in Pending
    /\ r.kind = "start"
    /\ server' = IF ok THEN [server EXCEPT !.status = "running"] ELSE server
    /\ systemStatus' = IF ok THEN [systemStatus EXCEPT !.status = "running"] ELSE systemStatus
    /\ inflight' = IF ok
                   THEN Send(Settle(inflight, r), Req("status", TRUE, 0))
                   ELSE Settle(inflight, r)
    /\ ctlIsLoading' = IF r.live THEN FALSE ELSE ctlIsLoading
    /\ UNCHANGED <<route, logVars, appMounted, websocket, isConnected, conns, checkInterval,
                   showConfirmStop, dashVars, apptVars, srvSlots, srvLogs>>

\* startSystem after its await: 200 (the server runs) or an error.
startSystemDone(r, ok) ==
    /\ r \in Pending
    /\ r.kind = "start"
    /\ server' = IF ok THEN [server EXCEPT !.status = "running"] ELSE server
    /\ inflight' = IF ok
                   THEN Send(Settle(inflight, r), Req("status", TRUE, 0))
                   ELSE Settle(inflight, r)
    /\ ctlIsLoading' = IF r.live THEN FALSE ELSE ctlIsLoading
    /\ UNCHANGED <<route, logVars, appVars, checkInterval, showConfirmStop, dashVars, apptVars,
                   srvSlots, srvLogs>>

\* Stop System button: the request step of the two-phase stop.
requestStop ==
    /\ route = "/controls"
    /\ isSystemRunning
    /\ ~showConfirmStop
    /\ showConfirmStop' = TRUE
    /\ UNCHANGED <<route, logVars, appVars, ctlIsLoading, checkInterval, dashVars, apptVars,
                   inflight, srvVars>>

\* Cancel button of the stop confirmation.
cancelStop ==
    /\ route = "/controls"
    /\ isSystemRunning
    /\ showConfirmStop
    /\ showConfirmStop' = FALSE
    /\ UNCHANGED <<route, logVars, appVars, ctlIsLoading, checkInterval, dashVars, apptVars,
                   inflight, srvVars>>

\* The POST /system/stop of stopSystem.
sendStop ==
    /\ Room
    /\ ctlIsLoading' = TRUE
    /\ inflight' = Send(inflight, Req("stop", TRUE, 0))
    /\ UNCHANGED <<route, logVars, appVars, checkInterval, showConfirmStop, dashVars,
                   apptVars, srvVars>>

\* Yes, Stop button -> stopSystem, up to its await.
stopSystem ==
    /\ route = "/controls"
    /\ isSystemRunning
    /\ showConfirmStop
    /\ IF ctlIsLoading THEN Rejected ELSE sendStop

\* stopSystem after its await, the confirmation left as it is.
stopSystemDone_NoReset(r, ok) ==
    /\ r \in Pending
    /\ r.kind = "stop"
    /\ server' = IF ok THEN [server EXCEPT !.status = "stopped"] ELSE server
    /\ inflight' = IF ok
                   THEN Send(Settle(inflight, r), Req("status", TRUE, 0))
                   ELSE Settle(inflight, r)
    /\ ctlIsLoading' = IF r.live THEN FALSE ELSE ctlIsLoading
    /\ UNCHANGED <<route, logVars, appVars, checkInterval, showConfirmStop, dashVars, apptVars,
                   srvSlots, srvLogs>>

\* A stop that calls onStatusUpdate whatever the outcome.
stopSystemDone_RefetchAlways(r, ok) ==
    /\ r \in Pending
    /\ r.kind = "stop"
    /\ server' = IF ok THEN [server EXCEPT !.status = "stopped"] ELSE server
    /\ inflight' = Send(Settle(inflight, r), Req("status", TRUE, 0))
    /\ showConfirmStop' = IF r.live /\ ok THEN FALSE ELSE showConfirmStop
    /\ ctlIsLoading' = IF r.live THEN FALSE ELSE ctlIsLoading
    /\ UNCHANGED <<route, logVars, appVars, checkInterval, dashVars, apptVars,
                   srvSlots, srvLogs>>

\* stopSystem after its await: 200 (the server stopped) or an error.
stopSystemDone(r, ok) ==
    /\ r \in Pending
    /\ r.kind = "stop"
    /\ server' = IF ok THEN [server EXCEPT !.status = "stopped"] ELSE server
    /\ inflight' = IF ok
                   THEN Send(Settle(inflight, r), Req("status", TRUE, 0))
                   ELSE Settle(inflight, r)
    /\ showConfirmStop' = IF r.live /\ ok THEN FALSE ELSE showConfirmStop
    /\ ctlIsLoading' = IF r.live THEN FALSE ELSE ctlIsLoading
    /\ UNCHANGED <<route, logVars, appVars, checkInterval, dashVars, apptVars,
                   srvSlots, srvLogs>>

\* Run Test Check button of the controls page, up to its await.
runTestCheck ==
    /\ route = "/controls"
    /\ IF ctlIsLoading
       THEN Rejected
       ELSE /\ Room
            /\ ctlIsLoading' = TRUE
            /\ inflight' = Send(inflight, Req("test", TRUE, 0))
            /\ UNCHANGED <<route, logVars, appVars, checkInterval, showConfirmStop, dashVars,
                           apptVars, srvVars>>

\* A test check of the controls page that calls onStatusUpdate on no outcome.
runTestCheckDone_Silent(r, outcome) ==
    /\ r \in Pending
    /\ r.kind = "test"
    /\ inflight' = Settle(inflight, r)
    /\ ctlIsLoading' = IF r.live THEN FALSE ELSE ctlIsLoading
    /\ UNCHANGED <<route, logVars, appVars, checkInterval, showConfirmStop, dashVars, apptVars,
                   srvVars>>

\* runTestCheck after its await.  outcome: "success" ({success: true}),
\* "fail" ({success: false}) or "error".
runTestCheckDone(r, outcome) ==
    /\ r \in Pending
    /\ r.kind = "test"
    /\ inflight' = IF outcome = "success"
                   THEN Send(Settle(inflight, r), Req("status", TRUE, 0))
                   ELSE Settle(inflight, r)
    /\ ctlIsLoading' = IF r.live THEN FALSE ELSE ctlIsLoading
    /\ UNCHANGED <<route, logVars, appVars, checkInterval, showConfirmStop, dashVars, apptVars,
                   srvVars>>

\* --------------------------------------------------------------- Dashboard
\* Test Check button of the dashboard, up to its await.
dashRunTestCheck ==
    /\ route = "/"
    /\ IF dashIsLoading
       THEN Rejected
       ELSE /\ Room
            /\ dashIsLoading' = TRUE
            /\ inflight' = Send(inflight, Req("dashTest", TRUE, 0))
            /\ UNCHANGED <<route, logVars, appVars, ctlVars, recentLogs, availableSlots, apptVars,
                           srvVars>>

\* The dashboard's runTestCheck after its await: on success it awaits
\* fetchRecentData (arg 1: onStatusUpdate follows it), else it ends.
dashRunTestCheckDone(r, outcome) ==
    /\ r \in Pending
    /\ r.kind = "dashTest"
    /\ inflight' = IF outcome = "success"
                   THEN Send(Settle(inflight, r), Req("dashLogs", r.live, 1))
                   ELSE Settle(inflight, r)
    /\ dashIsLoading' = IF r.live THEN outcome = "success" ELSE dashIsLoading
    /\ UNCHANGED <<route, logVars, appVars, ctlVars, recentLogs, availableSlots, apptVars,
                   srvVars>>

\* fetchRecentData after its first await (GET /logs?limit=10).
fetchRecentDataLogs(r, ok) ==
    /\ r \in Pending
    /\ r.kind = "dashLogs"
    /\ recentLogs' = IF r.live /\ ok THEN SubSeq(srvLogs, 1, IF Len(srvLogs) < 10 THEN Len(srvLogs) ELSE 10)
                     ELSE recentLogs
    /\ inflight' = CASE ok -> Send(Settle(inflight, r), Req("dashSlots", r.live, r.arg))
                     [] ~ok /\ r.arg = 1 -> Send(Settle(inflight, r), Req("status", TRUE, 0))
                     [] OTHER -> Settle(inflight, r)
    /\ dashIsLoading' = IF r.live /\ ~ok THEN FALSE ELSE dashIsLoading
    /\ UNCHANGED <<route, logVars, appVars, ctlVars, availableSlots, apptVars, srvVars>>

\* fetchRecentData after its second await (GET /appointments/available?limit=5).
fetchRecentDataSlots(r, ok) ==
    /\ r \in Pending
    /\ r.kind = "dashSlots"
    /\ availableSlots' = IF r.live /\ ok THEN SubSeq(srvSlots, 1, IF Len(srvSlots) < 5 THEN Len(srvSlots) ELSE 5)
                         ELSE availableSlots
    /\ inflight' = IF r.arg = 1
                   THEN Send(Settle(inflight, r), Req("status", TRUE, 0))
                   ELSE Settle(inflight, r)
    /\ dashIsLoading' = IF r.live THEN FALSE ELSE dashIsLoading
    /\ UNCHANGED <<route, logVars, appVars, ctlVars, recentLogs, apptVars, srvVars>>

\* ------------------------------------------------------------------ routes
\* The request a page's mount effect sends.
MountRequests(p) ==
    CASE p = "/" -> SetToBag({Req("dashLogs", TRUE, 0)})
      [] p = "/appointments" -> SetToBag({Req("slots", TRUE, 0)})
      [] p = "/logs" -> SetToBag({Req("logs", TRUE, LevelArg("all"))})
      [] OTHER -> EmptyBag

\* The useState defaults of every page, page p (if any) being the one that
\* mounts and starts its fetch.
FreshPages(p) ==
    /\ ctlIsLoading' = FALSE
    /\ checkInterval' = 2
    /\ showConfirmStop' = FALSE
    /\ dashIsLoading' = (p = "/")
    /\ recentLogs' = <<>>
    /\ availableSlots' = <<>>
    /\ slots' = <<>>
    /\ apptIsLoading' = (p = "/appointments")
    /\ selectedSlot' = 0
    /\ showBookingModal' = FALSE
    /\ bookingConfirmed' = FALSE
    /\ logs' = <<>>
    /\ logsIsLoading' = (p = "/logs")
    /\ selectedLevel' = "all"
    /\ searchTerm' = <<>>

\* A header link: the shown page unmounts, page p mounts with fresh state.
navigate(p) ==
    /\ p \in Routes \ {route}
    /\ MountRequests(p) # EmptyBag => Room
    /\ appMounted
    /\ route' = p
    /\ FreshPages(p)
    /\ inflight' = Orphan(inflight, route) (+) MountRequests(p)
    /\ UNCHANGED <<appVars, srvVars>>

\* ------------------------------------------------------- App: push channel
\* A frame of the push channel: text that parses to {type, data} or does not.
Frame(wellFormed, type, data) == [wellFormed |-> wellFormed, type |-> type, data |-> data]

Frames ==
    {Frame(TRUE, t, DefaultStatus) : t \in {"slots_found", "ping"}}
        \cup {Frame(TRUE, "log", e) : e \in LogPool}
        \cup {Frame(TRUE, "system_status", d) : d \in StatusRecords \cup {Undefined}}
        \cup {Frame(FALSE, "", DefaultStatus)}

\* The message types the handlers know.
KnownTypes == {"log", "slots_found", "system_status"}

\* One WebSocket object of the bag replaced by its next state.
Becomes(bag, c, state) == (bag (-) SetToBag({c})) (+) SetToBag({Conn(state, c.live)})

\* App mounts: the WebSocket effect creates a connection, the status effect
\* calls fetchSystemStatus and starts the interval timer.
mountApp ==
    /\ ~appMounted
    /\ BagCardinality(conns) < MaxConns
    /\ BagCardinality(inflight) + BagCardinality(MountRequests(route)) < MaxInFlight
    /\ appMounted' = TRUE
    /\ conns' = conns (+) SetToBag({Conn("CONNECTING", TRUE)})
    /\ FreshPages(route)
    /\ inflight' = Send(inflight, Req("status", TRUE, 0)) (+) MountRequests(route)
    /\ UNCHANGED <<route, systemStatus, websocket, isConnected, srvVars>>

\* App unmounts: the effect cleanup closes the socket if it is OPEN and
\* clears the interval; the component's state is gone and the setters of its
\* callbacks no longer reach it.
unmountApp ==
    /\ appMounted
    /\ appMounted' = FALSE
    /\ conns' = LET Cleaned(c) == Conn(IF c.live /\ c.state = "OPEN" THEN "CLOSING" ELSE c.state,
                                       FALSE)
                    S == {Cleaned(c) : c \in DOMAIN conns}
                IN  [d \in S |-> BagCardinality(
                        [c \in {x \in DOMAIN conns : Cleaned(x) = d} |-> conns[c]])]
    /\ inflight' = Orphan(Orphan(inflight, "App"), route)
    /\ systemStatus' = DefaultStatus
    /\ websocket' = 0
    /\ isConnected' = FALSE
    /\ FreshPages("")
    /\ UNCHANGED <<route, srvVars>>

\* ws.onopen
wsOpen(c) ==
    /\ c \in DOMAIN conns
    /\ c.state = "CONNECTING"
    /\ conns' = Becomes(conns, c, "OPEN")
    /\ isConnected' = IF c.live THEN TRUE ELSE isConnected
    /\ websocket' = IF c.live THEN 1 ELSE websocket
    /\ UNCHANGED <<route, logVars, systemStatus, appMounted, ctlVars, dashVars, apptVars,
                   inflight, srvVars>>

\* An error handler that leaves the connected signal alone.
wsError_Silent(c) ==
    /\ c \in DOMAIN conns
    /\ c.state \in {"CONNECTING", "OPEN"}
    /\ conns' = Becomes(conns, c, "FAILED")
    /\ UNCHANGED <<route, logVars, systemStatus, appMounted, websocket, isConnected, ctlVars,
                   dashVars, apptVars, inflight, srvVars>>

\* ws.onerror: the connection failed; its close event follows.
wsError(c) ==
    /\ c \in DOMAIN conns
    /\ c.state \in {"CONNECTING", "OPEN"}
    /\ conns' = Becomes(conns, c, "FAILED")
    /\ isConnected' = IF c.live THEN FALSE ELSE isConnected
    /\ UNCHANGED <<route, logVars, systemStatus, appMounted, websocket, ctlVars, dashVars,
                   apptVars, inflight, srvVars>>

\* An onclose that opens a new connection in place of the closed one.
wsClose_Reconnects(c) ==
    /\ c \in DOMAIN conns
    /\ c.state \in {"OPEN", "CLOSING", "FAILED"}
    /\ conns' = IF c.live
                THEN (conns (-) SetToBag({c})) (+) SetToBag({Conn("CONNECTING", TRUE)})
                ELSE conns (-) SetToBag({c})
    /\ isConnected' = IF c.live THEN FALSE ELSE isConnected
    /\ websocket' = IF c.live THEN 0 ELSE websocket
    /\ UNCHANGED <<route, logVars, systemStatus, appMounted, ctlVars, dashVars, apptVars,
                   inflight, srvVars>>

\* ws.onclose: after a failure, after close(), or closed by the server.
wsClose(c) ==
    /\ c \in DOMAIN conns
    /\ c.state \in {"OPEN", "CLOSING", "FAILED"}
    /\ conns' = conns (-) SetToBag({c})
    /\ isConnected' = IF c.live THEN FALSE ELSE isConnected
    /\ websocket' = IF c.live THEN 0 ELSE websocket
    /\ UNCHANGED <<route, logVars, systemStatus, appMounted, ctlVars, dashVars, apptVars,
                   inflight, srvVars>>

\* What ws.onmessage does with the message, the switch of
\* handleWebSocketMessage applying only the status field of the payload.
handleWebSocketMessage_Merge(c, message) ==
    /\ message.type = "slots_found" => Room
    /\ inflight' = IF message.type = "slots_found"
                   THEN Send(inflight, Req("status", c.live, 0))
                   ELSE inflight
    /\ systemStatus' = IF message.type = "system_status" /\ c.live
                       THEN [systemStatus EXCEPT !.status = message.data.status]
                       ELSE systemStatus

\* A switch whose default case calls fetchSystemStatus.
handleWebSocketMessage_Refetch(c, message) ==
    /\ inflight' = IF message.type \in {"log", "system_status"}
                   THEN inflight
                   ELSE Send(inflight, Req("status", c.live, 0))
    /\ systemStatus' = IF message.type = "system_status" /\ c.live
                       THEN message.data
                       ELSE systemStatus

\* A handler that also stores what a slots_found event carries as the status.
handleWebSocketMessage_StoresEvent(c, message) ==
    /\ message.type = "slots_found" => Room
    /\ inflight' = IF message.type = "slots_found"
                   THEN Send(inflight, Req("status", c.live, 0))
                   ELSE inflight
    /\ systemStatus' = IF message.type \in {"system_status", "slots_found"} /\ c.live
                       THEN message.data
                       ELSE systemStatus

\* handleWebSocketMessage: log -> console only; slots_found ->
\* fetchSystemStatus; system_status -> setSystemStatus(data); else ignored.
handleWebSocketMessage(c, message) ==
    /\ message.type = "slots_found" => Room
    /\ inflight' = IF message.type = "slots_found"
                   THEN Send(inflight, Req("status", c.live, 0))
                   ELSE inflight
    /\ systemStatus' = IF message.type = "system_status" /\ c.live
                       THEN message.data
                       ELSE systemStatus

\* An onmessage that takes a frame it cannot parse for a reason to fetch
\* the status.
onmessage_RefetchOnGarbage(c, frame) ==
    IF frame.wellFormed
    THEN handleWebSocketMessage(c, [type |-> frame.type, data |-> frame.data])
    ELSE inflight' = Send(inflight, Req("status", c.live, 0)) /\ UNCHANGED systemStatus

\* ws.onmessage: JSON.parse in a try, then handleWebSocketMessage; a frame
\* that does not parse is logged and dropped.
onmessage(c, frame) ==
    IF frame.wellFormed
    THEN handleWebSocketMessage(c, [type |-> frame.type, data |-> frame.data])
    ELSE UNCHANGED <<inflight, systemStatus>>

\* The log page listens to the WebSocket of App's state while it is shown.
Subscribed(c) == route = "/logs" /\ c.live /\ websocket = 1

\* The listener of the log page adding the record at the end of the stream.
handleMessage_Append(frame) ==
    logs' = IF frame.wellFormed /\ frame.type = "log" THEN Append(logs, frame.data) ELSE logs

\* SystemLogs handleMessage: JSON.parse in a try; a log event's data goes
\* to the head of the stream, anything else is ignored.
handleMessage(frame) ==
    logs' = IF frame.wellFormed /\ frame.type = "log" THEN <<frame.data>> \o logs ELSE logs

\* A frame arrives on WebSocket c: every listener of its message event runs.
wsMessage(c, frame) ==
    /\ c \in DOMAIN conns
    /\ c.state \in {"OPEN", "CLOSING"}
    /\ Subscribed(c) /\ frame.type = "log" => Len(logs) < MaxStream
    /\ onmessage(c, frame)
    /\ IF Subscribed(c) THEN handleMessage(frame) ELSE UNCHANGED logs
    /\ UNCHANGED <<route, appMounted, websocket, isConnected, conns, ctlVars, dashVars,
                   apptVars, logsIsLoading, selectedLevel, searchTerm, srvVars>>

\* ------------------------------------------------------------ SystemLogs
\* The pages GET /logs can answer with.
Pages == SeqsUpTo(LogPool, MaxPage)

\* The pages GET /logs?limit=100&level=... can answer request r with: with a
\* level, records of that level only.
PagesOf(r) ==
    {pg \in Pages :
        /\ r.kind = "logs"
        /\ LogLevels[r.arg] # "all" => \A i \in DOMAIN pg : pg[i].level = LogLevels[r.arg]}

\* Refresh button -> fetchLogs, up to its await.
fetchLogs ==
    /\ route = "/logs"
    /\ IF logsIsLoading
       THEN Rejected
       ELSE /\ Room
            /\ logsIsLoading' = TRUE
            /\ inflight' = Send(inflight, Req("logs", TRUE, LevelArg(selectedLevel)))
            /\ UNCHANGED <<route, appVars, ctlVars, dashVars, apptVars, logs, selectedLevel,
                           searchTerm, srvVars>>

\* The level select: setSelectedLevel, then the effect on [selectedLevel]
\* calls fetchLogs.
setSelectedLevel(v) ==
    /\ route = "/logs"
    /\ v # selectedLevel
    /\ Room
    /\ selectedLevel' = v
    /\ logsIsLoading' = TRUE
    /\ inflight' = Send(inflight, Req("logs", TRUE, LevelArg(v)))
    /\ UNCHANGED <<route, appVars, ctlVars, dashVars, apptVars, logs, searchTerm, srvVars>>

\* fetchLogs after its await, the page put in front of the stream it finds.
fetchLogsDone_Merge(r, ok, pg) ==
    /\ r \in Pending
    /\ r.kind = "logs"
    /\ inflight' = Settle(inflight, r)
    /\ logs' = IF r.live /\ ok THEN pg \o logs ELSE logs
    /\ logsIsLoading' = IF r.live THEN FALSE ELSE logsIsLoading
    /\ UNCHANGED <<route, appVars, ctlVars, dashVars, apptVars, selectedLevel, searchTerm,
                   srvVars>>

\* fetchLogs after its await: setLogs(response.data.logs) or the error,
\* and the finally.
fetchLogsDone(r, ok, pg) ==
    /\ r \in Pending
    /\ r.kind = "logs"
    /\ inflight' = Settle(inflight, r)
    /\ logs' = IF r.live /\ ok THEN pg ELSE logs
    /\ logsIsLoading' = IF r.live THEN FALSE ELSE logsIsLoading
    /\ UNCHANGED <<route, appVars, ctlVars, dashVars, apptVars, selectedLevel, searchTerm,
                   srvVars>>

\* Clear button: window.confirm, then setLogs([]).
clearLogs(accepted) ==
    /\ route = "/logs"
    /\ logs' = IF accepted THEN <<>> ELSE logs
    /\ UNCHANGED <<route, appVars, ctlVars, dashVars, apptVars, logsIsLoading, selectedLevel,
                   searchTerm, inflight, srvVars>>

\* A search box that keeps only the selected records in the stream.
setSearchTerm_Destructive(t) ==
    /\ route = "/logs"
    /\ t # searchTerm
    /\ searchTerm' = t
    /\ logs' = SelectSeq(logs, LAMBDA log :
                    \/ includes(toLowerCase(log.message), toLowerCase(t))
                    \/ "step" \in DOMAIN log /\ includes(toLowerCase(log.step), toLowerCase(t)))
    /\ UNCHANGED <<route, appVars, ctlVars, dashVars, apptVars, logsIsLoading,
                   selectedLevel, inflight, srvVars>>

\* The search box.
setSearchTerm(t) ==
    /\ route = "/logs"
    /\ t # searchTerm
    /\ searchTerm' = t
    /\ UNCHANGED <<route, appVars, ctlVars, dashVars, apptVars, logs, logsIsLoading,
                   selectedLevel, inflight, srvVars>>

\* log.step && ...: the record has a step and it is not the empty text.
Truthy(log) == "step" \in DOMAIN log /\ log.step # <<>>

\* The filter comparing the texts with the term as it was typed.
filteredLogs_CaseSensitive ==
    SelectSeq(logs, LAMBDA log :
        \/ includes(toLowerCase(log.message), searchTerm)
        \/ Truthy(log) /\ includes(toLowerCase(log.step), searchTerm))

\* const filteredLogs = logs.filter(...)
filteredLogs ==
    SelectSeq(logs, LAMBDA log :
        \/ includes(toLowerCase(log.message), toLowerCase(searchTerm))
        \/ Truthy(log) /\ includes(toLowerCase(log.step), toLowerCase(searchTerm)))

\* ------------------------------------------------------------------ server
\* The automation (or another operator) changes the server's status.
serverChange(s) ==
    /\ s \in StatusValues \ {server.status}
    /\ server' = [server EXCEPT !.status = s]
    /\ UNCHANGED <<route, logVars, appVars, ctlVars, dashVars, apptVars, inflight, srvSlots,
                   srvLogs>>

\* ------------------------------------------------------------------- App
\* A timer that runs only while the push channel is up.
pollStatus_WhileConnected ==
    /\ appMounted
    /\ isConnected
    /\ Room
    /\ inflight' = Send(inflight, Req("status", TRUE, 0))
    /\ UNCHANGED <<route, logVars, appVars, ctlVars, dashVars, apptVars, srvVars>>

\* fetchSystemStatus from the 30 s interval timer.
pollStatus ==
    /\ appMounted
    /\ Room
    /\ inflight' = Send(inflight, Req("status", TRUE, 0))
    /\ UNCHANGED <<route, logVars, appVars, ctlVars, dashVars, apptVars, srvVars>>

\* A status record as the number a request in flight carries (0: none).
StatusOrder == <<"stopped", "running", "paused", "error">>

StatusCode(s) ==
    (CHOOSE i \in DOMAIN StatusOrder : StatusOrder[i] = s.status)
        + Len(StatusOrder) * s.total_checks

StatusOfCode(n) ==
    [status |-> StatusOrder[((n - 1) % Len(StatusOrder)) + 1],
     total_checks |-> (n - 1) \div Len(StatusOrder)]

\* The server answers a GET /system/status with its status of that moment;
\* the response is then on its way to the browser.
answerStatus(r) ==
    /\ r \in Pending
    /\ r.kind = "status"
    /\ r.arg = 0
    /\ inflight' = Send(Settle(inflight, r), [r EXCEPT !.arg = StatusCode(server)])
    /\ UNCHANGED <<route, logVars, appVars, ctlVars, dashVars, apptVars, srvVars>>

\* response.data of a GET /system/status: what the server answered, or its
\* status now when answer and arrival are one step.
Snapshot(r) == IF r.arg = 0 THEN server ELSE StatusOfCode(r.arg)

\* fetchSystemStatus after its await.
fetchSystemStatusDone(r, ok) ==
    /\ r \in Pending
    /\ r.kind = "status"
    /\ inflight' = Settle(inflight, r)
    /\ systemStatus' = IF r.live /\ ok THEN Snapshot(r) ELSE systemStatus
    /\ UNCHANGED <<route, logVars, appMounted, websocket, isConnected, conns, ctlVars, dashVars,
                   apptVars, srvVars>>

\* ------------------------------------------------------------------ alerts
\* What axios throws for a request: message, and the detail of the response
\* body ("" when there is no response or no detail in it).
Errors ==
    {[message |-> "Network Error", detail |-> ""],
     [message |-> "Request failed with status code 500", detail |-> ""],
     [message |-> "Request failed with status code 400", detail |-> "System is already running"]}

\* error.response?.data?.detail || error.message
detailOrMessage(error) == IF error.detail # "" THEN error.detail ELSE error.message

\* The error text the catch branch of each handler puts after its prefix.
alertText(kind, error) ==
    CASE kind = "dashTest" -> error.message
      [] OTHER -> detailOrMessage(error)

NoAlert == [kind |-> "none", error |-> [message |-> "", detail |-> ""], text |-> ""]

\* ----------------------------------------------------------- specifications
\* The application right after it was loaded at one of the routes R: App's
\* mount effect has called fetchSystemStatus, the page's mount effect its
\* own fetch.
FreshAt(p) ==
    /\ ctlIsLoading = FALSE
    /\ checkInterval = 2
    /\ showConfirmStop = FALSE
    /\ dashIsLoading = (p = "/")
    /\ recentLogs = <<>>
    /\ availableSlots = <<>>
    /\ slots = <<>>
    /\ apptIsLoading = (p = "/appointments")
    /\ selectedSlot = 0
    /\ showBookingModal = FALSE
    /\ bookingConfirmed = FALSE
    /\ selectedLevel = "all"
    /\ searchTerm = <<>>

InitAt(R) ==
    /\ route \in R
    /\ systemStatus = DefaultStatus
    /\ FreshAt(route)
    /\ inflight = MountRequests(route) (+) SetToBag({Req("status", TRUE, 0)})
    /\ server = DefaultStatus
    /\ srvSlots = [i \in SlotIds |-> "available"]
    /\ srvLogs = <<>>
    /\ appMounted = TRUE
    /\ websocket = 0
    /\ isConnected = FALSE
    /\ conns = SetToBag({Conn("CONNECTING", TRUE)})
    /\ ev = "-"
    /\ bookCredit = 0
    /\ lastApplied = NoStatus
    /\ logs = <<>>
    /\ logsIsLoading = (route = "/logs")
    /\ page = <<>>
    /\ arrived = <<>>
    /\ alerted = NoAlert

\* The pages with an action button, the ones Spec visits.
ActionPages == Routes \ {"/logs"}

Init == InitAt(ActionPages)

Outcomes == {"success", "fail", "error"}

BookOutcomes == {"ok", "error", "failed"}

\* History of a settled request: the kind of a request of a mounted
\* component that ended in its error path, "-" after any other step.
Mark(r, failed) ==
    /\ ev' = IF failed /\ r.live THEN r.kind \o ":error" ELSE "-"
    /\ UNCHANGED <<alerted, bookCredit, lastApplied, page, arrived>>

SettleSlots == \E r \in Pending, ok \in BOOLEAN : fetchSlotsDone(r, ok) /\ Mark(r, ~ok)

SettleBook == \E r \in Pending, o \in BookOutcomes : confirmBookingDone(r, o) /\ Mark(r, o # "ok")

SettleStart == \E r \in Pending, ok \in BOOLEAN : startSystemDone(r, ok) /\ Mark(r, ~ok)

SettleStop == \E r \in Pending, ok \in BOOLEAN : stopSystemDone(r, ok) /\ Mark(r, ~ok)

SettleTest == \E r \in Pending, o \in Outcomes : runTestCheckDone(r, o) /\ Mark(r, o # "success")

SettleDashTest == \E r \in Pending, o \in Outcomes : dashRunTestCheckDone(r, o) /\ Mark(r, o # "success")

SettleDashLogs == \E r \in Pending, ok \in BOOLEAN : fetchRecentDataLogs(r, ok) /\ Mark(r, ~ok)

SettleDashSlots == \E r \in Pending, ok \in BOOLEAN : fetchRecentDataSlots(r, ok) /\ Mark(r, ~ok)

SettleStatus == \E r \in Pending, ok \in BOOLEAN : fetchSystemStatusDone(r, ok) /\ Mark(r, FALSE)

\* What the user, the poll timer and the server do.
UserActs ==
    \/ fetchSlots
    \/ \E id \in SlotIds : handleBookSlot(id)
    \/ \E c \in BOOLEAN : setBookingConfirmed(c)
    \/ cancelBooking
    \/ confirmBooking
    \/ \E v \in Intervals : setCheckInterval(v)
    \/ startSystem
    \/ requestStop
    \/ cancelStop
    \/ stopSystem
    \/ runTestCheck
    \/ dashRunTestCheck
    \/ \E p \in ActionPages : navigate(p)
    \/ \E s \in StatusValues : serverChange(s)
    \/ pollStatus

Acts ==
    /\ UserActs
    /\ ev' = "-"
    /\ UNCHANGED <<alerted, bookCredit, lastApplied, page, arrived>>

\* The front end.
Next ==
    \/ Acts
    \/ SettleSlots
    \/ SettleBook
    \/ SettleStart
    \/ SettleStop
    \/ SettleTest
    \/ SettleDashTest
    \/ SettleDashLogs
    \/ SettleDashSlots
    \/ SettleStatus

Spec == Init /\ [][Next]_vars

\* The requests that change something on the server.
Mutations == {"start", "stop", "test", "book", "dashTest"}

\* History of a settled request: kind and outcome of a mutation, whether or
\* not its component is still mounted, "-" after any other step.
Outcome(r, failed) ==
    /\ ev' = IF r.kind \in Mutations
             THEN r.kind \o (IF failed THEN ":failed" ELSE ":ok")
             ELSE "-"
    /\ UNCHANGED <<alerted, bookCredit, lastApplied, page, arrived>>

\* The front end, observed for the outcome of its mutations.
NextOutcomes ==
    \/ Acts
    \/ \E r \in Pending, ok \in BOOLEAN : fetchSlotsDone(r, ok) /\ Outcome(r, ~ok)
    \/ \E r \in Pending, o \in BookOutcomes : confirmBookingDone(r, o) /\ Outcome(r, o # "ok")
    \/ \E r \in Pending, ok \in BOOLEAN : startSystemDone(r, ok) /\ Outcome(r, ~ok)
    \/ \E r \in Pending, ok \in BOOLEAN : stopSystemDone(r, ok) /\ Outcome(r, ~ok)
    \/ \E r \in Pending, o \in Outcomes : runTestCheckDone(r, o) /\ Outcome(r, o # "success")
    \/ \E r \in Pending, o \in Outcomes : dashRunTestCheckDone(r, o) /\ Outcome(r, o # "success")
    \/ \E r \in Pending, ok \in BOOLEAN : fetchRecentDataLogs(r, ok) /\ Outcome(r, ~ok)
    \/ \E r \in Pending, ok \in BOOLEAN : fetchRecentDataSlots(r, ok) /\ Outcome(r, ~ok)
    \/ \E r \in Pending, ok \in BOOLEAN : fetchSystemStatusDone(r, ok) /\ Outcome(r, ~ok)

SpecOutcomes == Init /\ [][NextOutcomes]_vars

\* No alert is up.
Quiet ==
    /\ ev' = "-"
    /\ alerted' = NoAlert
    /\ UNCHANGED <<bookCredit, lastApplied, page, arrived>>

\* The catch branch of the handler of a request of this kind alerts.
Alerts(kind, error) ==
    /\ ev' = "-"
    /\ alerted' = [kind |-> kind, error |-> error, text |-> alertText(kind, error)]
    /\ UNCHANGED <<bookCredit, lastApplied, page, arrived>>

\* The front end, observed for the errors it alerts.
NextAlerts ==
    \/ UserActs /\ Quiet
    \/ \E r \in Pending, ok \in BOOLEAN : fetchSlotsDone(r, ok) /\ Quiet
    \/ \E r \in Pending : confirmBookingDone(r, "ok") /\ Quiet
    \/ \E r \in Pending, o \in {"error", "failed"}, e \in Errors :
          confirmBookingDone(r, o) /\ Alerts("book", e)
    \/ \E r \in Pending : startSystemDone(r, TRUE) /\ Quiet
    \/ \E r \in Pending, e \in Errors : startSystemDone(r, FALSE) /\ Alerts("start", e)
    \/ \E r \in Pending : stopSystemDone(r, TRUE) /\ Quiet
    \/ \E r \in Pending, e \in Errors : stopSystemDone(r, FALSE) /\ Alerts("stop", e)
    \/ \E r \in Pending, o \in {"success", "fail"} : runTestCheckDone(r, o) /\ Quiet
    \/ \E r \in Pending, e \in Errors : runTestCheckDone(r, "error") /\ Alerts("test", e)
    \/ \E r \in Pending, o \in {"success", "fail"} : dashRunTestCheckDone(r, o) /\ Quiet
    \/ \E r \in Pending, e \in Errors : dashRunTestCheckDone(r, "error") /\ Alerts("dashTest", e)
    \/ \E r \in Pending, ok \in BOOLEAN : fetchRecentDataLogs(r, ok) /\ Quiet
    \/ \E r \in Pending, ok \in BOOLEAN : fetchRecentDataSlots(r, ok) /\ Quiet
    \/ \E r \in Pending, ok \in BOOLEAN : fetchSystemStatusDone(r, ok) /\ Quiet

SpecAlerts == Init /\ [][NextAlerts]_vars

\* History of a click: the handler's name, marked when the click was turned
\* down (no program variable changed).
Click(name) == ev' = IF progVars' = progVars THEN name \o ":rejected" ELSE name

\* The appointments page, observed: the user moves between it and the
\* controls page (whose mount sends nothing), with the history of the
\* handlers and of the confirmations given and used.
NextBooking ==
    \/ fetchSlots /\ Click("fetchSlots") /\ UNCHANGED <<alerted, bookCredit, lastApplied, page, arrived>>
    \/ \E r \in Pending, ok \in BOOLEAN :
          /\ fetchSlotsDone(r, ok)
          /\ ev' = IF ok THEN "fetchSlots:ok" ELSE "fetchSlots:error"
          /\ UNCHANGED <<alerted, bookCredit, lastApplied, page, arrived>>
    \/ \E id \in SlotIds :
          handleBookSlot(id) /\ ev' = "handleBookSlot" /\ UNCHANGED <<alerted, bookCredit, lastApplied, page, arrived>>
    \/ \E c \in BOOLEAN :
          /\ c => bookCredit < MaxCredit
          /\ setBookingConfirmed(c)
          /\ ev' = "setBookingConfirmed"
          /\ bookCredit' = IF c THEN bookCredit + 1 ELSE bookCredit
          /\ UNCHANGED <<alerted, lastApplied, page, arrived>>
    \/ cancelBooking /\ ev' = "cancelBooking" /\ UNCHANGED <<alerted, bookCredit, lastApplied, page, arrived>>
    \/ /\ confirmBooking
       /\ Click("confirmBooking")
       /\ bookCredit' = IF InFlightOf("book")' > InFlightOf("book") /\ bookCredit >= 0
                        THEN bookCredit - 1 ELSE bookCredit
       /\ UNCHANGED <<alerted, lastApplied, page, arrived>>
    \/ \E r \in Pending, o \in BookOutcomes :
          /\ confirmBookingDone(r, o)
          /\ ev' = "confirmBooking:" \o o
          /\ UNCHANGED <<alerted, bookCredit, lastApplied, page, arrived>>
    \/ \E p \in {"/appointments", "/controls"} :
          navigate(p) /\ ev' = "navigate" /\ UNCHANGED <<alerted, bookCredit, lastApplied, page, arrived>>
    \/ \E r \in Pending, ok \in BOOLEAN :
          /\ fetchSystemStatusDone(r, ok)
          /\ ev' = "fetchSystemStatus"
          /\ UNCHANGED <<alerted, bookCredit, lastApplied, page, arrived>>

SpecBooking == InitAt({"/appointments", "/controls"}) /\ [][NextBooking]_vars

\* History of a settled request: handler, outcome, and whether the component
\* that issued it was gone.
Done(name, r, outcome) ==
    ev' = name \o ":" \o outcome \o (IF r.live THEN "" ELSE ":orphan")

OkErr(ok) == IF ok THEN "ok" ELSE "error"

\* The controls page, observed: the user moves between it and the
\* appointments page (whose only part here is its mount fetch), the server's
\* status changes, the status store polls.
NextControls ==
    /\ \/ \E v \in Intervals : setCheckInterval(v) /\ ev' = "setCheckInterval"
       \/ startSystem /\ Click("startSystem")
       \/ \E r \in Pending, ok \in BOOLEAN :
             startSystemDone(r, ok) /\ Done("startSystem", r, OkErr(ok))
       \/ requestStop /\ ev' = "requestStop"
       \/ cancelStop /\ ev' = "cancelStop"
       \/ stopSystem /\ Click("stopSystem")
       \/ \E r \in Pending, ok \in BOOLEAN :
             stopSystemDone(r, ok) /\ Done("stopSystem", r, OkErr(ok))
       \/ runTestCheck /\ Click("runTestCheck")
       \/ \E r \in Pending, o \in Outcomes :
             runTestCheckDone(r, o) /\ Done("runTestCheck", r, o)
       \/ \E p \in {"/controls", "/appointments"} : navigate(p) /\ ev' = "navigate"
       \/ \E r \in Pending, ok \in BOOLEAN :
             fetchSlotsDone(r, ok) /\ Done("fetchSlots", r, OkErr(ok))
       \/ \E s \in StatusValues : serverChange(s) /\ ev' = "serverChange"
       \/ pollStatus /\ ev' = "pollStatus"
       \/ \E r \in Pending, ok \in BOOLEAN :
             fetchSystemStatusDone(r, ok) /\ Done("fetchSystemStatus", r, OkErr(ok))
    /\ UNCHANGED <<alerted, bookCredit, lastApplied, page, arrived>>

SpecControls == InitAt({"/controls", "/appointments"}) /\ [][NextControls]_vars

\* A status application of this step: the response of GET /system/status
\* or a system_status event, reaching the mounted App.
Applied(source, payload) ==
    /\ ev' = source
    /\ lastApplied' = payload
    /\ UNCHANGED <<alerted, bookCredit, page, arrived>>

NotApplied ==
    /\ ev' = "-"
    /\ UNCHANGED <<alerted, bookCredit, lastApplied, page, arrived>>

\* An event of the WebSocket the mounted App holds.
Heard(name, c) ==
    /\ ev' = IF c.live THEN name ELSE "-"
    /\ UNCHANGED <<alerted, bookCredit, lastApplied, page, arrived>>

\* The interval timer fires.
PollTick == pollStatus /\ NotApplied

\* A GET /system/status of the mounted App is answered.
SnapshotArrives ==
    \E r \in Pending :
        /\ r.live
        /\ fetchSystemStatusDone(r, TRUE)
        /\ Applied("applySnapshot", Snapshot(r))

\* A GET /system/status fails, or is answered to an App that has unmounted.
StatusSettles ==
    \E r \in Pending, ok \in BOOLEAN :
        /\ ~(r.live /\ ok)
        /\ fetchSystemStatusDone(r, ok)
        /\ NotApplied

\* App alone, observed: its push channel, its status store and the poll
\* timer, the controls page shown and idle.
NextApp ==
    \/ mountApp /\ NotApplied
    \/ unmountApp /\ ev' = "-" /\ lastApplied' = NoStatus /\ UNCHANGED <<alerted, bookCredit, page, arrived>>
    \/ \E c \in DOMAIN conns : wsOpen(c) /\ Heard("wsOpen", c)
    \/ \E c \in DOMAIN conns : wsError(c) /\ Heard("wsError", c)
    \/ \E c \in DOMAIN conns : wsClose(c) /\ Heard("wsClose", c)
    \/ \E c \in DOMAIN conns, f \in Frames :
          /\ wsMessage(c, f)
          /\ CASE f.wellFormed /\ f.type = "system_status" /\ c.live ->
                    Applied("applyPush", f.data)
               [] f.wellFormed /\ f.type = "slots_found" ->
                    /\ ev' = "slots_found"
                    /\ UNCHANGED <<alerted, bookCredit, lastApplied, page, arrived>>
               [] OTHER -> NotApplied
    \/ PollTick
    \/ SnapshotArrives
    \/ StatusSettles
    \/ \E s \in StatusValues : serverChange(s) /\ NotApplied

SpecApp == InitAt({"/controls"}) /\ [][NextApp]_vars

\* The timer fires while App is mounted (whatever else is pending: only the
\* bound on the pending requests can put a tick off), every request is
\* settled, and of the answers the mounted App awaits again and again, one
\* arrives.
FairApp ==
    /\ SpecApp
    /\ SF_vars(PollTick)
    /\ WF_vars(StatusSettles)
    /\ SF_vars(SnapshotArrives)

\* The stream starts over: the page mounted, or its Clear button emptied it.
Emptied ==
    /\ ev' = "-"
    /\ page' = <<>>
    /\ arrived' = <<>>
    /\ UNCHANGED <<alerted, bookCredit, lastApplied>>

\* A log event reaches the log page that listens.
LogArrives ==
    \E c \in DOMAIN conns, e \in LogPool :
        /\ Subscribed(c)
        /\ wsMessage(c, Frame(TRUE, "log", e))
        /\ ev' = "appendLive"
        /\ arrived' = Append(arrived, e)
        /\ UNCHANGED <<alerted, bookCredit, lastApplied, page>>

\* The log page, observed: which page was applied last and which log events
\* were handled since; "applyPage:overLive" when the page found log events
\* in the stream.
NextLogs ==
    \/ \E p \in {"/logs", "/controls"} : navigate(p) /\ Emptied
    \/ fetchLogs /\ NotApplied
    \/ \E v \in {LogLevels[i] : i \in DOMAIN LogLevels} : setSelectedLevel(v) /\ NotApplied
    \/ \E r \in Pending, ok \in BOOLEAN, pg \in Pages :
          /\ pg \in PagesOf(r)
          /\ fetchLogsDone(r, ok, pg)
          /\ IF r.live /\ ok
             THEN /\ ev' = IF arrived # <<>> THEN "applyPage:overLive" ELSE "applyPage"
                  /\ page' = pg
                  /\ arrived' = <<>>
                  /\ UNCHANGED <<alerted, bookCredit, lastApplied>>
             ELSE NotApplied
    \/ clearLogs(TRUE) /\ Emptied
    \/ clearLogs(FALSE) /\ NotApplied
    \/ \E c \in DOMAIN conns : wsOpen(c) /\ NotApplied
    \/ \E c \in DOMAIN conns : wsError(c) /\ NotApplied
    \/ \E c \in DOMAIN conns : wsClose(c) /\ NotApplied
    \/ \E c \in DOMAIN conns, f \in {g \in Frames : g.type # "system_status"} :
          /\ wsMessage(c, f)
          /\ CASE Subscribed(c) /\ f.wellFormed /\ f.type = "log" ->
                    /\ ev' = "appendLive"
                    /\ arrived' = Append(arrived, f.data)
                    /\ UNCHANGED <<alerted, bookCredit, lastApplied, page>>
               [] f.wellFormed /\ f.type \notin KnownTypes ->
                    /\ ev' = "dropped"
                    /\ UNCHANGED <<alerted, bookCredit, lastApplied, page, arrived>>
               [] ~f.wellFormed ->
                    /\ ev' = "malformed"
                    /\ UNCHANGED <<alerted, bookCredit, lastApplied, page, arrived>>
               [] OTHER -> NotApplied
    \/ \E r \in Pending, ok \in BOOLEAN : fetchSystemStatusDone(r, ok) /\ NotApplied

SpecLogs == InitAt({"/logs"}) /\ [][NextLogs]_vars

\* The statuses the server has had, in order; it starts stopped.
Visited == {"stopped"} \cup {arrived[i] : i \in DOMAIN arrived}

\* Overlapping status fetches, observed: the timer, the server answering,
\* the responses arriving in any order, and the server moving on to a
\* status it has not had yet, kept in arrived.
NextOverlap ==
    \/ PollTick
    \/ \E r \in Pending : answerStatus(r) /\ NotApplied
    \/ \E r \in Pending, ok \in BOOLEAN : fetchSystemStatusDone(r, ok) /\ NotApplied
    \/ \E s \in StatusValues \ Visited :
          /\ serverChange(s)
          /\ arrived' = Append(arrived, s)
          /\ ev' = "-"
          /\ UNCHANGED <<alerted, bookCredit, lastApplied, page>>

SpecOverlap == InitAt({"/controls"}) /\ [][NextOverlap]_vars

\* The log page at rest with any stream in it, its WebSocket open.
InitFilter ==
    /\ route = "/logs"
    /\ systemStatus = DefaultStatus
    /\ FreshAt("/logs")
    /\ logs \in SeqsUpTo(LogRecords, MaxShown)
    /\ logsIsLoading = FALSE
    /\ inflight = EmptyBag
    /\ server = DefaultStatus
    /\ srvSlots = [i \in SlotIds |-> "available"]
    /\ srvLogs = <<>>
    /\ appMounted = TRUE
    /\ websocket = 1
    /\ isConnected = TRUE
    /\ conns = SetToBag({Conn("OPEN", TRUE)})
    /\ ev = "-"
    /\ bookCredit = 0
    /\ lastApplied = NoStatus
    /\ page = logs
    /\ arrived = <<>>
    /\ alerted = NoAlert

\* The search box typed into or cleared, over every stream; the view shown
\* before the step is kept in arrived.
NextFilter ==
    \E t \in Texts(MaxLen) :
        /\ setSearchTerm(t)
        /\ ev' = IF t = <<>> THEN "cleared" ELSE "typed"
        /\ arrived' = filteredLogs
        /\ UNCHANGED <<alerted, bookCredit, lastApplied, page>>

SpecFilter == InitFilter /\ [][NextFilter]_vars

\* Every request that is pending gets its response or its error: the
\* network and the server answer, and the browser runs the continuation.
Settles ==
    /\ WF_vars(SettleSlots)
    /\ WF_vars(SettleBook)
    /\ WF_vars(SettleStart)
    /\ WF_vars(SettleStop)
    /\ WF_vars(SettleTest)
    /\ WF_vars(SettleDashTest)
    /\ WF_vars(SettleDashLogs)
    /\ WF_vars(SettleDashSlots)

FairSpec == Spec /\ Settles

\* ------------------------------------------------------------------ claims
\* C1 (as claimed): for each action kind at most one request of that kind is
\* in flight at any time.
C1_OnePerKind == \A k \in {"start", "stop", "test", "book"} : InFlightOf(k) <= 1

\* A POST /appointments/book is sent in this step.
BookSent == InFlightOf("book")' > InFlightOf("book")

\* C2: a POST /appointments/book is sent only with the confirmation flag set
\* and a slot selected, and carries that slot; a click on Confirm Booking
\* made without them changes no program state and sends nothing.
C2_BookNeedsConfirmation ==
    [][ /\ BookSent =>
             /\ bookingConfirmed
             /\ selectedSlot # 0
             /\ Req("book", TRUE, selectedSlot) \in Pending'
        /\ (ev' = "confirmBooking:rejected" \/ ev' = "confirmBooking")
              /\ (~bookingConfirmed \/ selectedSlot = 0)
           => UNCHANGED progVars ]_vars

\* C2 happens: Confirm Booking was clicked with the flag not set.
C2_Witness == ev = "confirmBooking:rejected" /\ ModalOpen /\ ~bookingConfirmed

\* C3 (as claimed): the bookings sent never exceed the confirmations given.
C3_SentWithinConfirmed == bookCredit >= 0

\* C5: the busy flag of no component stays set forever once the pending
\* requests get their response or their error.
C5_LockReleased ==
    /\ apptIsLoading ~> ~apptIsLoading
    /\ ctlIsLoading ~> ~ctlIsLoading
    /\ dashIsLoading ~> ~dashIsLoading

\* C5 happens: a request of the mounted page has just ended in its error
\* path and the page's busy flag is clear.
C5_Witness ==
    \/ ev \in {"book:error", "slots:error"} /\ route = "/appointments" /\ ~apptIsLoading
    \/ ev \in {"start:error", "stop:error", "test:error"} /\ route = "/controls" /\ ~ctlIsLoading
    \/ ev \in {"dashTest:error", "dashSlots:error"} /\ route = "/" /\ ~dashIsLoading

\* A POST /system/stop is sent in this step.
StopSent == InFlightOf("stop")' > InFlightOf("stop")

C4_LastAppliedWins == lastApplied # NoStatus => systemStatus = lastApplied

\* C4 happens: an event's payload has replaced an earlier value from which
\* it differs in every field, while the server says something else.
C4_Witness ==
    /\ ev = "applyPush"
    /\ lastApplied.status # "stopped"
    /\ lastApplied.total_checks # 0
    /\ lastApplied # server

\* WebSocket objects that are connecting or open.
Active == [c \in {d \in DOMAIN conns : d.state \in {"CONNECTING", "OPEN"}} |-> conns[c]]

\* C10 (as claimed): at most one push connection is connecting or open.
C10_OneConnection == BagCardinality(Active) <= 1

\* C7: a successful page load leaves the stream equal to the loaded page:
\* of the log events handled before it, none stays unless the page has it.
C7_PageReplacesStream ==
    [][ev' \in {"applyPage", "applyPage:overLive"} =>
          /\ logs' = page'
          /\ \A i \in 1..Len(arrived) :
                (\E j \in 1..Len(logs') : logs'[j] = arrived[i]) =>
                    (\E j \in 1..Len(page') : page'[j] = arrived[i])]_vars

\* C7 happens: a page was applied over a stream holding log events, and the
\* page is shorter than the stream it replaced could be.
C7_Witness ==
    /\ ev = "applyPage:overLive"
    /\ route = "/logs"
    /\ logs = page
    /\ Len(page) = 1

Reverse(q) == [i \in 1..Len(q) |-> q[Len(q) + 1 - i]]

\* C8: a log event handled by the shown log page puts exactly its record at
\* the head of the stream and keeps the rest as it was, so the stream is
\* the log events since the last page, newest first, then that page.
C8_LivePrepended ==
    /\ [](route = "/logs" => logs = Reverse(arrived) \o page)
    /\ [][ev' = "appendLive" =>
             /\ Len(logs') = Len(logs) + 1
             /\ Tail(logs') = logs
             /\ Head(logs') = arrived'[Len(arrived')]]_vars

\* C8 happens: two different log events were handled after a page.
C8_Witness ==
    /\ ev = "appendLive"
    /\ Len(arrived) = 2
    /\ arrived[1] # arrived[2]
    /\ page # <<>>
    /\ logs = <<arrived[2], arrived[1]>> \o page

\* Text t has part in it, letters compared without regard to case.
ContainsNoCase(t, part) ==
    \E i \in 0..(Len(t) - Len(part)) :
        \A j \in 1..Len(part) : toLowerCase(<<t[i + j]>>) = toLowerCase(<<part[j]>>)

\* The record is one the term selects.
Selected(log) ==
    \/ ContainsNoCase(log.message, searchTerm)
    \/ "step" \in DOMAIN log /\ ContainsNoCase(log.step, searchTerm)

\* The positions of the stream whose record the term selects.
SelectedAt == {i \in 1..Len(logs) : Selected(logs[i])}

\* C9: the filtered view is the selected records of the stream in stream
\* order, each once; with an empty term it is the stream.
C9_FilterIsSubsequence ==
    /\ Len(filteredLogs) = Cardinality(SelectedAt)
    /\ \A k \in 1..Len(filteredLogs) :
          \E i \in SelectedAt :
              /\ Cardinality({h \in SelectedAt : h <= i}) = k
              /\ filteredLogs[k] = logs[i]
    /\ searchTerm = <<>> => filteredLogs = logs

\* C9 happens: a term with a capital selects a record by its step only and
\* drops another record of the stream.
C9_Witness ==
    /\ searchTerm = <<"A">>
    /\ Len(logs) = 2
    /\ filteredLogs = <<logs[2]>>
    /\ "step" \in DOMAIN logs[2]
    /\ ~ContainsNoCase(logs[2].message, searchTerm)

\* The WebSocket of the mounted App is open.
LiveOpen == \E c \in DOMAIN conns : c.live /\ c.state = "OPEN"

\* C11: the connected signal is false after a close or an error event, and
\* true only while the connection whose open event set it has neither
\* closed nor failed.
C11_ConnectedSignal ==
    /\ isConnected => LiveOpen
    /\ ev \in {"wsError", "wsClose"} => ~isConnected

\* C11 happens: the open connection of the mounted App failed, its close
\* event still to come.
C11_Witness ==
    /\ ev = "wsError"
    /\ appMounted
    /\ websocket = 1
    /\ ~isConnected

\* C12: the poll is enabled whenever App is mounted, connected or not, and
\* with the push channel down a stored status that differs from the
\* server's is replaced by the server's (unless App unmounts first).
C12_PollingBackstop ==
    /\ [](appMounted /\ Room => ENABLED PollTick)
    /\ (appMounted /\ ~isConnected /\ systemStatus # server)
          ~> (systemStatus = server \/ ~appMounted)

\* C12 happens: the connection has closed, the server changed afterwards,
\* and a poll's answer brought the change to the store.
C12_Witness ==
    /\ ev = "applySnapshot"
    /\ appMounted
    /\ conns = EmptyBag
    /\ ~isConnected
    /\ systemStatus = server
    /\ server.status # "stopped"

\* A GET /system/status is sent in this step.
StatusSent == InFlightOf("status")' = InFlightOf("status") + 1

\* The dashboard's fetchRecentData calls that its runTestCheck awaits.
Awaited ==
    LET S == {r \in Pending : r.kind \in {"dashLogs", "dashSlots"} /\ r.arg = 1}
    IN  BagCardinality([r \in S |-> inflight[r]])

\* C13: every mutation that succeeds has a GET /system/status sent: in the
\* step that handles the 200 (start, stop, test check, booking), or for the
\* dashboard's test check in the step that ends the fetchRecentData it
\* awaits first.
C13_RefetchAfterSuccess ==
    [][/\ ev' \in {"start:ok", "stop:ok", "test:ok", "book:ok"} => StatusSent
       /\ ev' = "dashTest:ok" => Awaited' = Awaited + 1
       /\ Awaited' < Awaited => StatusSent]_vars

\* C13 happens: the stop of a running system succeeded and the status
\* request it triggered is the one pending, the store still saying running.
C13_Witness ==
    /\ ev = "stop:ok"
    /\ route = "/controls"
    /\ inflight = SetToBag({Req("status", TRUE, 0)})
    /\ server.status = "stopped"
    /\ systemStatus.status = "running"

ControlFailures ==
    {n \o o \o g : n \in {"startSystem", "stopSystem", "runTestCheck"},
                   o \in {":error", ":fail"}, g \in {"", ":orphan"}}

\* C15: a failed start, stop or test check leaves the stored status and all
\* else as it was, sends no status request, and releases the busy lock of
\* its page.
C15_FailureLeavesStatus ==
    [][ev' \in ControlFailures =>
          /\ InFlightOf("status")' = InFlightOf("status")
          /\ BagCardinality(inflight') = BagCardinality(inflight) - 1
          /\ ev' \notin {"startSystem:error:orphan", "stopSystem:error:orphan",
                         "runTestCheck:error:orphan", "runTestCheck:fail:orphan"}
                => ~ctlIsLoading'
          /\ UNCHANGED <<route, appVars, checkInterval, showConfirmStop, dashVars, apptVars,
                         logVars, srvVars>>]_vars

\* C15 happens: the stop of a running system failed: the confirmation is
\* still pending, the lock is free, nothing is in flight.
C15_Witness ==
    /\ ev = "stopSystem:error"
    /\ route = "/controls"
    /\ systemStatus.status = "running"
    /\ showConfirmStop
    /\ ~ctlIsLoading
    /\ inflight = EmptyBag

\* A GET /appointments/available of the appointments page is sent in this
\* step.
SlotsSent == InFlightOf("slots")' = InFlightOf("slots") + 1

\* C16 (as claimed): every booking attempt that is answered, with success or
\* with a failure, has the slot list fetched again.
C16_RefreshAfterAttempt ==
    [][ev' \in {"confirmBooking:ok", "confirmBooking:error", "confirmBooking:failed"}
          => SlotsSent]_vars

\* C17: the slot list of the appointments page changes only when a GET
\* /appointments/available response replaces it with the server's list (or
\* when the page mounts, empty): no booking outcome, selection, confirmation
\* or cancel changes it, nor does a refresh that fails.
C17_SlotsOnlyReplaced ==
    [][slots' # slots =>
          \/ ev' = "fetchSlots:ok" /\ slots' = srvSlots
          \/ ev' = "navigate" /\ slots' = <<>>]_vars

\* C17 happens: a booking succeeded on the server and the page, its refresh
\* still pending, shows the slot as it did before.
C17_Witness ==
    /\ ev = "confirmBooking:ok"
    /\ route = "/appointments"
    /\ \E i \in SlotIds : slots[i] = "available" /\ srvSlots[i] = "booked"
    /\ InFlightOf("slots") = 1

\* C18 (as claimed): a test check that succeeds has the slot list fetched
\* again, from the controls page as from the dashboard (whose runTestCheck
\* awaits fetchRecentData).
C18_SlotsAfterTestCheck ==
    [][ev' \in {"test:ok", "dashTest:ok"} => Awaited' = Awaited + 1 \/ SlotsSent]_vars

\* C19 (as claimed): the error a failed request puts in front of the user
\* is the detail of the response when it has one, the transport message
\* when it has none.
C19_DetailSurfaced ==
    alerted # NoAlert =>
        alerted.text = (IF alerted.error.detail # "" THEN alerted.error.detail
                        ELSE alerted.error.message)

\* C20: a message of a type the handlers do not know changes nothing: not
\* the stored status, not the log stream, not a slot list, and no request
\* is sent.
C20_UnknownTypeDropped == [][ev' = "dropped" => UNCHANGED progVars]_vars

\* C20 happens: such a message arrived while the log page was listening
\* with a stream on show.
C20_Witness ==
    /\ ev = "dropped"
    /\ route = "/logs"
    /\ websocket = 1
    /\ isConnected
    /\ logs # <<>>

\* C21: a frame that does not parse changes nothing (stored status, log
\* stream, connected signal, connection), and the log page that was
\* listening still takes the next log event of the connection.
C21_MalformedDropped ==
    /\ [][ev' = "malformed" => UNCHANGED progVars]_vars
    /\ [](ev = "malformed" /\ route = "/logs" /\ websocket = 1 /\ LiveOpen
            /\ Len(logs) < MaxStream => ENABLED LogArrives)

\* C21 happens: a frame that does not parse arrived on the open connection
\* while the log page was listening with a stream on show.
C21_Witness ==
    /\ ev = "malformed"
    /\ route = "/logs"
    /\ websocket = 1
    /\ isConnected
    /\ LiveOpen
    /\ logs # <<>>
    /\ Len(logs) < MaxStream

\* C22: the stored status is a status record in every state: after the
\* default, after every applied response and after every applied
\* system_status event, the ones without data included.
C22_StatusNeverAbsent == systemStatus \in StatusRecords

\* No record at two positions.
NoRepeat(s) == \A i, j \in DOMAIN s : i # j => s[i] # s[j]

\* C23: the log stream holds no record twice: when the last page applied
\* and the log events that arrived after it each hold a record once, a
\* record that came both in the page and as an event is in the stream once.
C23_NoRecordTwice ==
    route = "/logs" /\ NoRepeat(page) /\ NoRepeat(arrived) => NoRepeat(logs)

\* C24: the log stream is bounded: it never holds more entries than the
\* retained maximum, here the size of a full page, the one count the log
\* page knows; older entries go first.
C24_StreamBounded == Len(logs) <= MaxPage

\* The mounted App has a connection that is connecting or open.
HasConnection == \E c \in DOMAIN conns : c.live /\ c.state \in {"CONNECTING", "OPEN"}

\* The step is a mount of the App.
Mounts == ~appMounted /\ appMounted'

\* C25: no retry: only a mount creates a connection, and once the
\* connection of the App has closed or failed, every step that is not a
\* mount (close, error, message, poll, response, unmount) leaves the App
\* without a connection and the connected signal false.
C25_NoRetry ==
    [][/\ CopiesIn(Conn("CONNECTING", TRUE), conns')
            > CopiesIn(Conn("CONNECTING", TRUE), conns) => Mounts
       /\ ~HasConnection /\ ~Mounts => ~HasConnection' /\ ~isConnected']_vars

\* C25 happens: the connection of the mounted App has closed, nothing is
\* left of it, and the App goes on polling without it.
C25_Witness ==
    /\ ev = "wsClose"
    /\ appMounted
    /\ conns = EmptyBag
    /\ websocket = 0
    /\ ~isConnected
    /\ InFlightOf("status") > 0

\* C26: after the App has unmounted no connection is left connecting or
\* open, whatever state the connection was in at the unmount.
C26_ClosedAtUnmount ==
    ~appMounted => \A c \in DOMAIN conns : c.state \notin {"CONNECTING", "OPEN"}

\* C27: a change of the search term leaves the log stream as it was, and
\* with the term cleared the view is the whole stream the page started with.
C27_SearchLeavesStream ==
    /\ [][searchTerm' # searchTerm => logs' = logs]_vars
    /\ [](searchTerm = <<>> => filteredLogs = page)

\* C27 happens: the term was cleared after a term that hid a record, and
\* both records of the stream are on show again.
C27_Witness ==
    /\ ev = "cleared"
    /\ searchTerm = <<>>
    /\ Len(logs) = 2
    /\ Len(arrived) < Len(logs)
    /\ filteredLogs = logs

\* C28: every POST /system/start in flight carries an interval of
\* {1, 2, 3, 5, 10}: the interval of a freshly mounted page is 2 and it is
\* one of these values in every state.
C28_IntervalOfTheOptions ==
    /\ checkInterval \in Intervals
    /\ route # "/controls" => checkInterval = 2
    /\ \A r \in Pending : r.kind = "start" => r.arg \in Intervals

\* C28 happens: a start is in flight with an interval chosen in the select.
C28_Witness ==
    /\ ev = "startSystem"
    /\ ctlIsLoading
    /\ \E r \in Pending : r.kind = "start" /\ r.live /\ r.arg = 10

\* C29: on the appointments page the busy flag is true in every state
\* where a slot refresh or a booking of the page is in flight.
C29_BusyWhileInFlight ==
    (route = "/appointments"
        /\ \E r \in Pending : r.live /\ r.kind \in {"slots", "book"}) => apptIsLoading

\* C30: the two connection indicators agree in every state: the connected
\* flag is true exactly when the stored connection handle is set.
C30_IndicatorsAgree == isConnected <=> websocket # 0

\* Every entry of the stream has the selected level.
OfSelectedLevel(stream) == \A i \in DOMAIN stream : stream[i].level = selectedLevel

\* A page load of the mounted log page is in flight.
LoadInFlight == \E r \in Pending : r.kind = "logs" /\ r.live

\* C31: while a level other than all stays selected, a stream whose entries
\* all have that level still has only such entries after every step that
\* leaves no page load in flight: neither a live append nor the late
\* response of an earlier page load puts an entry of another level into it.
C31_StreamOfSelectedLevel ==
    [][(/\ route = "/logs"
        /\ selectedLevel # "all"
        /\ selectedLevel' = selectedLevel
        /\ OfSelectedLevel(logs)
        /\ ~LoadInFlight') => OfSelectedLevel(logs')]_vars

\* How far into the server's history a status is (0: its first status).
Age(status) ==
    IF status = "stopped" THEN 0 ELSE CHOOSE i \in DOMAIN arrived : arrived[i] = status

\* C32: the stored status never goes back to a server state older than one
\* already applied, in whatever order the responses of overlapping status
\* fetches arrive.
C32_NeverOlder ==
    [][systemStatus' # systemStatus => Age(systemStatus'.status) > Age(systemStatus.status)]_vars

\* C33: a step that sends a POST /system/start starts from a stored status
\* of stopped, and one that sends a POST /system/stop from running; so with
\* a stored status of paused or error no step sends either.
C33_StartStopGated ==
    [][/\ InFlightOf("start")' > InFlightOf("start") => systemStatus.status = "stopped"
       /\ InFlightOf("stop")' > InFlightOf("stop") => systemStatus.status = "running"
       /\ systemStatus.status \in {"paused", "error"} =>
              /\ InFlightOf("start")' <= InFlightOf("start")
              /\ InFlightOf("stop")' <= InFlightOf("stop")]_vars

\* C33 happens: the stop confirmation was open when the stored status went
\* to paused; the controls page is idle and nothing was sent.
C33_Witness ==
    /\ route = "/controls"
    /\ systemStatus.status = "paused"
    /\ showConfirmStop
    /\ ~ctlIsLoading
    /\ InFlightOf("start") = 0
    /\ InFlightOf("stop") = 0

C35_BookedWhileAvailable ==
    [][InFlightOf("book")' > InFlightOf("book") =>
          /\ selectedSlot \in 1..Len(slots)
          /\ slots[selectedSlot] = "available"]_vars

\* C36: the busy lock of an action survives navigation: of the start, the
\* stop and the test-check requests (the test check of the controls page
\* and of the dashboard being one action) at most one is in flight, the
\* ones of a page the user has left included.
C36_LockSurvivesNavigation ==
    /\ InFlightOf("start") <= 1
    /\ InFlightOf("stop") <= 1
    /\ InFlightOf("test") + InFlightOf("dashTest") <= 1

\* C37: a slots_found event sends exactly one GET /system/status and
\* changes nothing else: the stored status, the slot lists, the log stream
\* and every other variable of the front end and of the server are as
\* before; the stored status changes only when a response is applied.
C37_SlotsFoundOnlyRefetches ==
    [][ev' = "slots_found" =>
          /\ InFlightOf("status")' = InFlightOf("status") + 1
          /\ BagCardinality(inflight') = BagCardinality(inflight) + 1
          /\ UNCHANGED <<route, appVars, ctlVars, dashVars, apptVars, logVars, srvVars>>]_vars

\* C37 happens: a slots_found event reached the mounted App while its
\* stored status was behind the server's; the fetch is in flight and the
\* stored status is still the old one.
C37_Witness ==
    /\ ev = "slots_found"
    /\ isConnected
    /\ LiveOpen
    /\ systemStatus # server
    /\ systemStatus # DefaultStatus
    /\ Req("status", TRUE, 0) \in Pending

=============================================================================
